---- MODULE Spec2Model ----
(***************************************************************************)
(* Model of tools/maze_gen_core.py: one build_maze_json call as a state    *)
(* machine (carving, loop injection, breadth-first path search, hazard     *)
(* selection, document construction), plus shortest_path on its own over   *)
(* arbitrary symmetric grids, plus a second build with the same seed, plus *)
(* generate_batch over the preset registry.                                *)
(***************************************************************************)
EXTENDS Integers, Sequences, FiniteSets, TLC

VARIABLES
    cfg,        \* MazeConfig: name, nx, nz, extra_open_ratio, trap_density
    seed,       \* build_maze_json's seed argument
    maze_id,    \* build_maze_json's maze_id argument / local
    rng,        \* the random.Random instance of the build
    walls,      \* walls[z][x]: the bitmask grid
    visited,    \* visited[z][x] of generate_perfect_maze
    stack,      \* the carver's stack of <<x, z>>
    pushes,     \* pushes[z][x]: how often <<x, z>> was put on the stack
    attempts,   \* iterations of add_loops' outer loop still to run
    start,      \* shortest_path's start
    goal,       \* shortest_path's goal
    q,          \* the BFS deque
    prev,       \* the BFS predecessor dict
    seen,       \* the BFS seen set
    path,       \* the path shortest_path returns
    trap_set,   \* the set choose_traps returns
    data,       \* the document build_maze_json returns
    run,        \* 0: shortest_path called on its own; 1: a build; 2: its repetition
    data1,      \* the document of the first build, kept for the second
    pc,         \* where control is
    batch       \* the generate_batch call around the builds, if there is one

vars == <<cfg, seed, maze_id, rng, walls, visited, stack, pushes, attempts,
          start, goal, q, prev, seen, path, trap_set, data, run, data1, pc, batch>>

-----------------------------------------------------------------------------
(* Bounds of the model *)

\* grids have 1..MaxNx columns
MaxNx == 3
\* grids have 1..MaxNz rows
MaxNz == 3
\* grids have at most MaxCells cells
MaxCells == 9
\* grids handed to shortest_path on its own have at most MaxPathCells cells
MaxPathCells == 6
\* extra_open_ratio ranges over -1/RatioDen .. MaxRatioNum/RatioDen
MaxRatioNum == 2
\* trap_density ranges over -1/TrapDen .. MaxTrapNum/TrapDen
MaxTrapNum == 3
\* seeds of the seeded builds are 0..MaxSeed
MaxSeed == 2
\* the default id's random suffix is drawn below IdRange (1_000_000 in the code)
IdRange == 2

\* denominators of the two rational parameters
RatioDen == 4
TrapDen == 2

-----------------------------------------------------------------------------
(* Direction bitmasks, offsets and opposites *)

N == 1
S == 2
E == 4
W == 8

\* iteration order of the DIRS dict
DirOrder == <<N, S, E, W>>

DIRS(d) == CASE d = N -> <<0, -1>>
             [] d = S -> <<0, 1>>
             [] d = E -> <<1, 0>>
             [] d = W -> <<-1, 0>>

OPPOSITE(d) == CASE d = N -> S
                 [] d = S -> N
                 [] d = E -> W
                 [] d = W -> E

AllWalls == N + S + E + W

\* mask & d  (d a single direction bit), as a truth value
HasWall(mask, d) == (mask \div d) % 2 = 1

\* mask & d, the complement forgotten
KeepWall(mask, d) == IF HasWall(mask, d) THEN d ELSE 0

\* mask & ~d
ClearWall(mask, d) == IF HasWall(mask, d) THEN mask - d ELSE mask

\* in_bounds with the last column left out (an off-by-one in the x test)
in_bounds_short(x, z, nx, nz) == 0 <= x /\ x < nx - 1 /\ 0 <= z /\ z < nz

in_bounds(x, z, nx, nz) == 0 <= x /\ x < nx /\ 0 <= z /\ z < nz

\* the opening with the neighbour's side forgotten
OpenOneSide(w, x, z, d, nx2, nz2) == [w EXCEPT ![z][x] = ClearWall(@, d)]

\* walls[z][x] &= ~d ; walls[nz2][nx2] &= ~OPPOSITE[d]
OpenBoth(w, x, z, d, nx2, nz2) ==
    LET w1 == [w EXCEPT ![z][x] = ClearWall(@, d)]
    IN  [w1 EXCEPT ![nz2][nx2] = ClearWall(@, OPPOSITE(d))]

\* int(): truncation toward zero of the rational num/den, den > 0
IntOf(num, den) == IF num >= 0 THEN num \div den ELSE -((-num) \div den)

-----------------------------------------------------------------------------
(* The generator.  A random.Random instance is either seeded, and then its  *)
(* draws are a function of the seed (a small congruential generator stands *)
(* for the Mersenne Twister), or unconstrained, and then a draw below n is  *)
(* any number of 0..n-1.                                                    *)

LcgStep(s) == (37 * s + 11) % 101

\* a generator that ignores the seed it is given
NewRngUnseeded(sd) == [seeded |-> FALSE, state |-> 0]

\* a generator whose draws are unconstrained
AnyRng == [seeded |-> FALSE, state |-> 0]

\* random.Random(seed); seed is << >> for None (seeded from system entropy)
\* and <<n>> for the integer n
NewRng(sd) == IF sd = << >> THEN AnyRng
              ELSE [seeded |-> TRUE, state |-> LcgStep(sd[1] % 101)]

RECURSIVE AllDraws(_)
AllDraws(lens) ==
    IF lens = << >> THEN { << >> }
    ELSE { <<h>> \o t : h \in 0..(Head(lens) - 1), t \in AllDraws(Tail(lens)) }

RECURSIVE SeededDraws(_, _)
SeededDraws(s, lens) ==
    IF lens = << >> THEN << >>
    ELSE <<s % Head(lens)>> \o SeededDraws(LcgStep(s), Tail(lens))

\* the possible results of Len(lens) successive draws, the i-th below lens[i]
Draws(g, lens) == IF g.seeded THEN { SeededDraws(g.state, lens) }
                  ELSE AllDraws(lens)

RECURSIVE LcgSteps(_, _)
LcgSteps(s, k) == IF k = 0 THEN s ELSE LcgSteps(LcgStep(s), k - 1)

\* the generator after k draws
Advance(g, k) == IF g.seeded THEN [g EXCEPT !.state = LcgSteps(@, k)] ELSE g

-----------------------------------------------------------------------------
(* Configurations *)

\* MazeConfig values: extra_open_ratio is the rational ratioNum / ratioDen and
\* trap_density the rational trapNum / trapDen
Configs == { c \in [name : {"easy"},
                    nx : 1..MaxNx,
                    nz : 1..MaxNz,
                    ratioNum : -1..MaxRatioNum,
                    ratioDen : {RatioDen},
                    trapNum : -1..MaxTrapNum,
                    trapDen : {TrapDen}] : c.nx * c.nz <= MaxCells }

Cells(nx, nz) == (0..(nx - 1)) \X (0..(nz - 1))

\* Python's None, for the optional arguments seed and maze_id
None == << >>

Seeds == { None } \cup { <<n>> : n \in 0..MaxSeed }

-----------------------------------------------------------------------------
(* generate_perfect_maze *)

\* the list `neighbors` built for the cell on top of the stack
Neighbors(vis, x, z, nx, nz) ==
    LET ds == SelectSeq(DirOrder,
                  LAMBDA d : /\ in_bounds(x + DIRS(d)[1], z + DIRS(d)[2], nx, nz)
                             /\ ~vis[z + DIRS(d)[2]][x + DIRS(d)[1]])
    IN  [i \in 1..Len(ds) |-> <<ds[i], x + DIRS(ds[i])[1], z + DIRS(ds[i])[2]>>]

\* the all-walls grid, the visited array and the push counts at loop entry
InitWalls(nx, nz) == [z \in 0..(nz - 1) |-> [x \in 0..(nx - 1) |-> AllWalls]]
\* the visited array with visited[0][0] = True forgotten
InitVisitedNone(nx, nz) == [z \in 0..(nz - 1) |-> [x \in 0..(nx - 1) |-> FALSE]]

InitVisited(nx, nz) ==
    [z \in 0..(nz - 1) |-> [x \in 0..(nx - 1) |-> (x = 0 /\ z = 0)]]
InitPushes(nx, nz) ==
    [z \in 0..(nz - 1) |-> [x \in 0..(nx - 1) |-> IF x = 0 /\ z = 0 THEN 1 ELSE 0]]

\* build_maze_json called directly: no generate_batch call is in progress
NoBatch == [phase |-> "none"]

\* the state of a build on entry to the carving loop
BuildEntry(c, sd, id) ==
    /\ cfg = c
    /\ seed = sd
    /\ maze_id = id
    /\ rng = NewRng(sd)
    /\ walls = InitWalls(c.nx, c.nz)
    /\ visited = InitVisited(c.nx, c.nz)
    /\ stack = << <<0, 0>> >>
    /\ pushes = InitPushes(c.nx, c.nz)
    /\ attempts = 0
    /\ start = <<0, 0>>
    /\ goal = <<0, 0>>
    /\ q = << >>
    /\ prev = << >>
    /\ seen = {}
    /\ path = << >>
    /\ trap_set = {}
    /\ data = << >>
    /\ pc = "carve"

Init ==
    /\ \E c \in Configs, sd \in Seeds, id \in {None, <<"maze", "given">>} :
           BuildEntry(c, sd, id)
    /\ run = 1
    /\ data1 = << >>
    /\ batch = NoBatch

\* the backtracking iteration with stack.pop() forgotten
CarveBacktrackNoPop ==
    /\ pc = "carve"
    /\ stack # << >>
    /\ LET top == stack[Len(stack)]
       IN  Neighbors(visited, top[1], top[2], cfg.nx, cfg.nz) = << >>
    /\ UNCHANGED vars

\* one iteration of the while loop that finds no unvisited neighbour: pop
CarveBacktrack ==
    /\ pc = "carve"
    /\ stack # << >>
    /\ LET top == stack[Len(stack)]
       IN  Neighbors(visited, top[1], top[2], cfg.nx, cfg.nz) = << >>
    /\ stack' = SubSeq(stack, 1, Len(stack) - 1)
    /\ UNCHANGED <<cfg, seed, maze_id, rng, walls, visited, pushes, attempts,
                   start, goal, q, prev, seen, path, trap_set, data, run, data1, pc, batch>>

\* one iteration that chooses a neighbour, opens the wall and pushes it
CarveStep ==
    /\ pc = "carve"
    /\ stack # << >>
    /\ LET top == stack[Len(stack)]
           x == top[1]
           z == top[2]
           neighbors == Neighbors(visited, x, z, cfg.nx, cfg.nz)
       IN  /\ neighbors # << >>
           /\ \E dr \in Draws(rng, <<Len(neighbors)>>) :
                 LET chosen == neighbors[dr[1] + 1]
                     d == chosen[1]
                     nx2 == chosen[2]
                     nz2 == chosen[3]
                 IN  /\ walls' = OpenBoth(walls, x, z, d, nx2, nz2)
                     /\ visited' = [visited EXCEPT ![nz2][nx2] = TRUE]
                     /\ stack' = Append(stack, <<nx2, nz2>>)
                     /\ pushes' = [pushes EXCEPT ![nz2][nx2] = @ + 1]
           /\ rng' = Advance(rng, 1)
    /\ UNCHANGED <<cfg, seed, maze_id, attempts, start, goal, q, prev, seen,
                   path, trap_set, data, run, data1, pc, batch>>

\* the stack is empty: generate_perfect_maze returns walls to build_maze_json
CarveReturn ==
    /\ pc = "carve"
    /\ stack = << >>
    /\ pc' = "carved"
    /\ UNCHANGED <<cfg, seed, maze_id, rng, walls, visited, stack, pushes, attempts,
                   start, goal, q, prev, seen, path, trap_set, data, run, data1, batch>>

-----------------------------------------------------------------------------
(* add_loops *)

\* x[i], x[j] = x[j], x[i] on a 1-based sequence, i and j 0-based
Swap(sq, i, j) == [sq EXCEPT ![i + 1] = sq[j + 1], ![j + 1] = sq[i + 1]]

\* rng.shuffle(dirs) for the four directions: for i = 3, 2, 1 a draw j below
\* i + 1 and a swap of positions i and j
Shuffle(dirs, j3, j2, j1) == Swap(Swap(Swap(dirs, 3, j3), 2, j2), 1, j1)

\* the candidate directions with the `_in_bounds` test forgotten
OpenableNoBounds(w, dirs, x, z, nx, nz) ==
    SelectSeq(dirs, LAMBDA d : HasWall(w[z][x], d))

\* the directions of `dirs`, in order, at which the inner loop would open a wall
Openable(w, dirs, x, z, nx, nz) ==
    SelectSeq(dirs, LAMBDA d : /\ in_bounds(x + DIRS(d)[1], z + DIRS(d)[2], nx, nz)
                               /\ HasWall(w[z][x], d))

\* the body with the `break` forgotten: every in-bounds walled direction is opened
RECURSIVE OpenEach(_, _, _, _)
OpenEach(w, x, z, ds) ==
    IF ds = << >> THEN w
    ELSE OpenEach(OpenBoth(w, x, z, Head(ds), x + DIRS(Head(ds))[1], z + DIRS(Head(ds))[2]),
                  x, z, Tail(ds))

LoopBodyNoBreak(w, x, z, dirs, nx, nz) ==
    OpenEach(w, x, z, Openable(w, dirs, x, z, nx, nz))

\* the body with the wall test inverted and the wall put back on both sides
LoopBodyClosing(w, x, z, dirs, nx, nz) ==
    LET shut == SelectSeq(dirs, LAMBDA d : /\ in_bounds(x + DIRS(d)[1], z + DIRS(d)[2], nx, nz)
                                           /\ ~HasWall(w[z][x], d))
        x2 == x + DIRS(shut[1])[1]
        z2 == z + DIRS(shut[1])[2]
    IN  IF shut = << >> THEN w
        ELSE [w EXCEPT ![z][x] = w[z][x] + shut[1],
                       ![z2][x2] = IF HasWall(w[z2][x2], OPPOSITE(shut[1])) THEN w[z2][x2]
                                   ELSE w[z2][x2] + OPPOSITE(shut[1])]

\* the body of one iteration of `for _ in range(num_extra)` on the grid w
LoopBody(w, x, z, dirs, nx, nz) ==
    LET open == Openable(w, dirs, x, z, nx, nz)
    IN  IF open = << >> THEN w
        ELSE OpenBoth(w, x, z, open[1], x + DIRS(open[1])[1], z + DIRS(open[1])[2])

\* num_extra rounded up instead of truncated
NumExtraCeil(c) == IntOf(c.nx * c.nz * c.ratioNum + c.ratioDen - 1, c.ratioDen)

\* num_extra = int(total_cells * extra_open_ratio)
NumExtra(c) == IntOf(c.nx * c.nz * c.ratioNum, c.ratioDen)

\* build_maze_json: cfg.extra_open_ratio > 0, add_loops is entered
CallAddLoops ==
    /\ pc = "carved"
    /\ cfg.ratioNum > 0
    /\ attempts' = NumExtra(cfg)
    /\ pc' = "loops"
    /\ UNCHANGED <<cfg, seed, maze_id, rng, walls, visited, stack, pushes,
                   start, goal, q, prev, seen, path, trap_set, data, run, data1, batch>>

\* build_maze_json: cfg.extra_open_ratio <= 0, add_loops is not called
SkipAddLoops ==
    /\ pc = "carved"
    /\ ~(cfg.ratioNum > 0)
    /\ pc' = "looped"
    /\ UNCHANGED <<cfg, seed, maze_id, rng, walls, visited, stack, pushes, attempts,
                   start, goal, q, prev, seen, path, trap_set, data, run, data1, batch>>

\* one iteration of add_loops' outer loop
LoopAttempt ==
    /\ pc = "loops"
    /\ attempts > 0
    /\ \E dr \in Draws(rng, <<cfg.nx, cfg.nz, 4, 3, 2>>) :
          walls' = LoopBody(walls, dr[1], dr[2],
                            Shuffle(DirOrder, dr[3], dr[4], dr[5]), cfg.nx, cfg.nz)
    /\ rng' = Advance(rng, 5)
    /\ attempts' = attempts - 1
    /\ UNCHANGED <<cfg, seed, maze_id, visited, stack, pushes,
                   start, goal, q, prev, seen, path, trap_set, data, run, data1, pc, batch>>

\* the outer loop is exhausted: add_loops returns
LoopsReturn ==
    /\ pc = "loops"
    /\ attempts = 0
    /\ pc' = "looped"
    /\ UNCHANGED <<cfg, seed, maze_id, rng, walls, visited, stack, pushes, attempts,
                   start, goal, q, prev, seen, path, trap_set, data, run, data1, batch>>

-----------------------------------------------------------------------------
(* shortest_path *)

\* the for loop with appendleft in place of append: the deque used as a stack
RECURSIVE ExpandDirsLifo(_, _, _, _, _, _, _)
ExpandDirsLifo(st, dirs, x, z, w, nx, nz) ==
    IF dirs = << >> THEN st
    ELSE LET d == Head(dirs)
             nx2 == x + DIRS(d)[1]
             nz2 == z + DIRS(d)[2]
             rest == Tail(dirs)
         IN  IF HasWall(w[z][x], d) THEN ExpandDirsLifo(st, rest, x, z, w, nx, nz)
             ELSE IF ~in_bounds(nx2, nz2, nx, nz) THEN ExpandDirsLifo(st, rest, x, z, w, nx, nz)
             ELSE IF <<nx2, nz2>> \in st.seen THEN ExpandDirsLifo(st, rest, x, z, w, nx, nz)
             ELSE ExpandDirsLifo([seen |-> st.seen \cup { <<nx2, nz2>> },
                                  prev |-> (<<nx2, nz2>> :> <<x, z>>) @@ st.prev,
                                  q |-> << <<nx2, nz2>> >> \o st.q],
                                 rest, x, z, w, nx, nz)

\* the for loop over DIRS of one BFS iteration at the dequeued cell <<x, z>>;
\* st is the record of seen, prev and q
RECURSIVE ExpandDirs(_, _, _, _, _, _, _)
ExpandDirs(st, dirs, x, z, w, nx, nz) ==
    IF dirs = << >> THEN st
    ELSE LET d == Head(dirs)
             nx2 == x + DIRS(d)[1]
             nz2 == z + DIRS(d)[2]
             rest == Tail(dirs)
         IN  IF HasWall(w[z][x], d) THEN ExpandDirs(st, rest, x, z, w, nx, nz)
             ELSE IF ~in_bounds(nx2, nz2, nx, nz) THEN ExpandDirs(st, rest, x, z, w, nx, nz)
             ELSE IF <<nx2, nz2>> \in st.seen THEN ExpandDirs(st, rest, x, z, w, nx, nz)
             ELSE ExpandDirs([seen |-> st.seen \cup { <<nx2, nz2>> },
                              prev |-> (<<nx2, nz2>> :> <<x, z>>) @@ st.prev,
                              q |-> Append(st.q, <<nx2, nz2>>)],
                             rest, x, z, w, nx, nz)

\* the `while True` loop that walks prev from cur back to start, before reverse()
RECURSIVE WalkBack(_, _, _)
WalkBack(pv, cur, from) ==
    IF cur = from THEN <<cur>> ELSE <<cur>> \o WalkBack(pv, pv[cur], from)

Reverse(sq) == [i \in 1..Len(sq) |-> sq[Len(sq) + 1 - i]]

\* the path with path.reverse() forgotten
TracePathUnreversed(pv, from, to) ==
    IF to \notin DOMAIN pv /\ to # from THEN << >>
    ELSE WalkBack(pv, to, from)

\* the empty-path test without its `cur != (from_x, from_z)` half
TracePathNoStartTest(pv, from, to) ==
    IF to \notin DOMAIN pv THEN << >>
    ELSE Reverse(WalkBack(pv, to, from))

\* lines 161-173: the path returned for the final prev
TracePath(pv, from, to) ==
    IF to \notin DOMAIN pv /\ to # from THEN << >>
    ELSE Reverse(WalkBack(pv, to, from))

\* the call with goal = (nx, nz), the `- 1` forgotten
CallShortestPathPastCorner ==
    /\ pc = "looped"
    /\ start' = <<0, 0>>
    /\ goal' = <<cfg.nx, cfg.nz>>
    /\ q' = << <<0, 0>> >>
    /\ prev' = << >>
    /\ seen' = { <<0, 0>> }
    /\ pc' = "bfs"
    /\ UNCHANGED <<cfg, seed, maze_id, rng, walls, visited, stack, pushes, attempts,
                   path, trap_set, data, run, data1, batch>>

\* build_maze_json calls shortest_path(walls, (0,0), (nx-1,nz-1)); the queue,
\* prev and seen are set up
CallShortestPath ==
    /\ pc = "looped"
    /\ start' = <<0, 0>>
    /\ goal' = <<cfg.nx - 1, cfg.nz - 1>>
    /\ q' = << <<0, 0>> >>
    /\ prev' = << >>
    /\ seen' = { <<0, 0>> }
    /\ pc' = "bfs"
    /\ UNCHANGED <<cfg, seed, maze_id, rng, walls, visited, stack, pushes, attempts,
                   path, trap_set, data, run, data1, batch>>

\* one iteration of `while q` whose dequeued cell is not the goal
BfsExpand ==
    /\ pc = "bfs"
    /\ q # << >>
    /\ Head(q) # goal
    /\ LET st == ExpandDirs([seen |-> seen, prev |-> prev, q |-> Tail(q)], DirOrder,
                            Head(q)[1], Head(q)[2], walls, cfg.nx, cfg.nz)
       IN  /\ seen' = st.seen
           /\ prev' = st.prev
           /\ q' = st.q
    /\ UNCHANGED <<cfg, seed, maze_id, rng, walls, visited, stack, pushes, attempts,
                   start, goal, path, trap_set, data, run, data1, pc, batch>>

\* the while loop ends: the goal is dequeued (break) or the queue is empty
BfsExit ==
    /\ pc = "bfs"
    /\ IF q = << >> THEN TRUE ELSE Head(q) = goal
    /\ q' = IF q = << >> THEN q ELSE Tail(q)
    /\ pc' = "trace"
    /\ UNCHANGED <<cfg, seed, maze_id, rng, walls, visited, stack, pushes, attempts,
                   start, goal, prev, seen, path, trap_set, data, run, data1, batch>>

\* the path is rebuilt from prev and returned
ReturnPath ==
    /\ pc = "trace"
    /\ path' = TracePath(prev, start, goal)
    /\ pc' = "sp_ret"
    /\ UNCHANGED <<cfg, seed, maze_id, rng, walls, visited, stack, pushes, attempts,
                   start, goal, q, prev, seen, trap_set, data, run, data1, batch>>

-----------------------------------------------------------------------------
(* choose_traps *)

\* the candidates with the test against path_cells forgotten
CandidatesOffStart(nx, nz, path_cells) ==
    LET all == [n \in 1..(nx * nz) |-> <<(n - 1) % nx, (n - 1) \div nx>>]
    IN  SelectSeq(all, LAMBDA c : ~(c[1] = 0 /\ c[2] = 0))

\* the list comprehension: cells in row-major order (z outer, x inner) that are
\* neither on the path nor the cell (0, 0)
Candidates(nx, nz, path_cells) ==
    LET all == [n \in 1..(nx * nz) |-> <<(n - 1) % nx, (n - 1) \div nx>>]
    IN  SelectSeq(all, LAMBDA c : c \notin path_cells /\ ~(c[1] = 0 /\ c[2] = 0))

\* a sample with replacement (rng.choices): the pool is never shrunk
SampleWithReplacement(pool, js) == [i \in 1..Len(js) |-> pool[js[i] + 1]]

\* rng.sample(pool, k) for the draws js: the i-th draw j picks pool[j] and the
\* last live element of the pool takes its place
RECURSIVE Sample(_, _)
Sample(pool, js) ==
    IF js = << >> THEN << >>
    ELSE LET j == Head(js)
             n == Len(pool)
             moved == [pool EXCEPT ![j + 1] = pool[n]]
         IN  <<pool[j + 1]>> \o Sample(SubSeq(moved, 1, n - 1), Tail(js))

\* num_traps after `max(0, ...)`, for len(candidates) = n
NumTraps(n, trapNum, trapDen) ==
    LET num == IntOf(n * trapNum, trapDen)
    IN  IF num > 0 THEN num ELSE 0

\* the sample size with one candidate always left out
SampleSizeShort(n, trapNum, trapDen) ==
    IF NumTraps(n, trapNum, trapDen) < n - 1 THEN NumTraps(n, trapNum, trapDen) ELSE n - 1

\* min(num_traps, len(candidates))
SampleSize(n, trapNum, trapDen) ==
    IF NumTraps(n, trapNum, trapDen) < n THEN NumTraps(n, trapNum, trapDen) ELSE n

\* the number of draws choose_traps makes: none on the early returns
TrapDraws(n, trapNum, trapDen) ==
    IF n = 0 \/ trapNum <= 0 THEN 0
    ELSE IF NumTraps(n, trapNum, trapDen) = 0 THEN 0
    ELSE SampleSize(n, trapNum, trapDen)

\* the set choose_traps returns when the sample's draws are js and
\* trap_density is trapNum / trapDen
choose_traps(nx, nz, path_cells, js, trapNum, trapDen) ==
    LET candidates == Candidates(nx, nz, path_cells)
    IN  IF candidates = << >> \/ trapNum <= 0 THEN {}
        ELSE IF NumTraps(Len(candidates), trapNum, trapDen) = 0 THEN {}
        ELSE LET chosen == Sample(candidates, js)
             IN  { chosen[i] : i \in 1..Len(chosen) }

-----------------------------------------------------------------------------
(* build_maze_json, after shortest_path has returned *)

PathSet(p) == { p[i] : i \in 1..Len(p) }

\* `if not path: raise RuntimeError`, else path_set and the call of choose_traps
CheckPathChooseTraps ==
    /\ pc = "sp_ret"
    /\ run > 0
    /\ IF path = << >>
       THEN /\ pc' = "error"
            /\ UNCHANGED <<rng, trap_set, batch>>
       ELSE LET n == Len(Candidates(cfg.nx, cfg.nz, PathSet(path)))
                k == TrapDraws(n, cfg.trapNum, cfg.trapDen)
            IN  /\ \E js \in Draws(rng, [i \in 1..k |-> n + 1 - i]) :
                      trap_set' = choose_traps(cfg.nx, cfg.nz, PathSet(path), js,
                                               cfg.trapNum, cfg.trapDen)
                /\ rng' = Advance(rng, k)
                /\ pc' = "trapped"
    /\ UNCHANGED <<cfg, seed, maze_id, walls, visited, stack, pushes, attempts,
                   start, goal, q, prev, seen, path, data, run, data1, batch>>

\* the cell dictionary with the booleans meaning `open` instead of `wall`
CellJsonOpen(w, traps, x, z) ==
    [i |-> x, k |-> z,
     walls |-> [N |-> ~HasWall(w[z][x], N), S |-> ~HasWall(w[z][x], S),
                E |-> ~HasWall(w[z][x], E), W |-> ~HasWall(w[z][x], W)],
     trap |-> (<<x, z>> \in traps)]

\* the cell dictionary of lines 234-244
CellJson(w, traps, x, z) ==
    [i |-> x, k |-> z,
     walls |-> [N |-> HasWall(w[z][x], N), S |-> HasWall(w[z][x], S),
                E |-> HasWall(w[z][x], E), W |-> HasWall(w[z][x], W)],
     trap |-> (<<x, z>> \in traps)]

\* the dictionary `data` of lines 229-259, for the id `id`
Document(c, id, w, p, traps, st, gl) ==
    [id |-> id,
     difficulty |-> c.name,
     size |-> [nx |-> c.nx, nz |-> c.nz, cellSize |-> 1],
     layers |-> 1,
     start |-> [layer |-> 0, i |-> st[1], k |-> st[2]],
     goal |-> [layer |-> 0, i |-> gl[1], k |-> gl[2]],
     shortestPath |-> [n \in 1..Len(p) |-> [i |-> p[n][1], k |-> p[n][2]]],
     cells |-> [z \in 0..(c.nz - 1) |-> [x \in 0..(c.nx - 1) |-> CellJson(w, traps, x, z)]]]

\* the default id when maze_id is None, for the suffix r
DefaultId(c, r) == <<"maze", c.name, r>>

\* the id is defaulted if None, the document is built and returned
BuildDocument ==
    /\ pc = "trapped"
    /\ IF maze_id = None
       THEN /\ \E dr \in Draws(rng, <<IdRange>>) :
                  data' = Document(cfg, DefaultId(cfg, dr[1]), walls, path, trap_set,
                                   <<0, 0>>, <<cfg.nx - 1, cfg.nz - 1>>)
            /\ rng' = Advance(rng, 1)
       ELSE /\ data' = Document(cfg, maze_id, walls, path, trap_set,
                                <<0, 0>>, <<cfg.nx - 1, cfg.nz - 1>>)
            /\ rng' = rng
    /\ pc' = "done"
    /\ UNCHANGED <<cfg, seed, maze_id, walls, visited, stack, pushes, attempts,
                   start, goal, q, prev, seen, path, trap_set, run, data1, batch>>

-----------------------------------------------------------------------------
(* One build *)

Next ==
    \/ CarveBacktrack
    \/ CarveStep
    \/ CarveReturn
    \/ CallAddLoops
    \/ SkipAddLoops
    \/ LoopAttempt
    \/ LoopsReturn
    \/ CallShortestPath
    \/ BfsExpand
    \/ BfsExit
    \/ ReturnPath
    \/ CheckPathChooseTraps
    \/ BuildDocument

Spec == Init /\ [][Next]_vars

\* generate_perfect_maze alone, from its call to its return; it is one
\* sequential computation: an iteration that can be taken is taken
NextCarve ==
    \/ CarveBacktrack
    \/ CarveStep
    \/ CarveReturn

SpecCarve == Init /\ [][NextCarve]_vars /\ WF_vars(NextCarve)

\* generate_perfect_maze and add_loops alone, up to the return of add_loops,
\* for every size, ratio and seed; trap_density and maze_id, which neither
\* of the two reads, are held at 0 and None
InitLoops == Init /\ cfg.trapNum = 0 /\ maze_id = None

NextLoops ==
    \/ CarveBacktrack
    \/ CarveStep
    \/ CarveReturn
    \/ CallAddLoops
    \/ SkipAddLoops
    \/ LoopAttempt
    \/ LoopsReturn

SpecLoops == InitLoops /\ [][NextLoops]_vars

-----------------------------------------------------------------------------
(* shortest_path called on its own, on any grid with symmetric walls *)

\* the passages a lattice can have: <<x, z, d>> for d in {S, E} with the
\* neighbour in bounds
LatticeEdges(nx, nz) ==
    { e \in (0..(nx - 1)) \X (0..(nz - 1)) \X {S, E} :
        in_bounds(e[1] + DIRS(e[3])[1], e[2] + DIRS(e[3])[2], nx, nz) }

\* whether direction d of cell <<x, z>> is one of the passages of `open`
IsOpen(open, x, z, d) ==
    CASE d = S -> <<x, z, S>> \in open
      [] d = E -> <<x, z, E>> \in open
      [] d = N -> <<x, z - 1, S>> \in open
      [] d = W -> <<x - 1, z, E>> \in open

\* the grid whose open passages are exactly those of `open`
GridOf(open, nx, nz) ==
    [z \in 0..(nz - 1) |-> [x \in 0..(nx - 1) |->
        (IF IsOpen(open, x, z, N) THEN 0 ELSE N) + (IF IsOpen(open, x, z, S) THEN 0 ELSE S)
      + (IF IsOpen(open, x, z, E) THEN 0 ELSE E) + (IF IsOpen(open, x, z, W) THEN 0 ELSE W)]]

\* shortest_path(walls, start, goal) has been called: lines 131-139 have run
InitPath ==
    /\ \E c \in Configs :
          /\ c.ratioNum = 0 /\ c.trapNum = 0 /\ c.nx * c.nz <= MaxPathCells
          /\ cfg = c
          /\ \E open \in SUBSET LatticeEdges(c.nx, c.nz) : walls = GridOf(open, c.nx, c.nz)
          /\ visited = InitVisited(c.nx, c.nz)
          /\ pushes = InitPushes(c.nx, c.nz)
          /\ start \in Cells(c.nx, c.nz)
          /\ goal \in Cells(c.nx, c.nz)
    /\ seed = None
    /\ maze_id = None
    /\ rng = AnyRng
    /\ stack = << >>
    /\ attempts = 0
    /\ q = <<start>>
    /\ prev = << >>
    /\ seen = {start}
    /\ path = << >>
    /\ trap_set = {}
    /\ data = << >>
    /\ run = 0
    /\ data1 = << >>
    /\ pc = "bfs"
    /\ batch = NoBatch

\* the builds, and the calls of shortest_path on its own
InitAny == Init \/ InitPath

SpecPath == InitAny /\ [][Next]_vars

-----------------------------------------------------------------------------
(* Two builds with the same configuration, seed and maze_id *)

\* the first build has returned; build_maze_json is called again with the same
\* arguments and is at the entry of the carving loop
Rebuild ==
    /\ pc = "done"
    /\ run = 1
    /\ run' = 2
    /\ data1' = data
    /\ rng' = NewRng(seed)
    /\ walls' = InitWalls(cfg.nx, cfg.nz)
    /\ visited' = InitVisited(cfg.nx, cfg.nz)
    /\ stack' = << <<0, 0>> >>
    /\ pushes' = InitPushes(cfg.nx, cfg.nz)
    /\ attempts' = 0
    /\ start' = <<0, 0>>
    /\ goal' = <<0, 0>>
    /\ q' = << >>
    /\ prev' = << >>
    /\ seen' = {}
    /\ path' = << >>
    /\ trap_set' = {}
    /\ data' = << >>
    /\ pc' = "carve"
    /\ UNCHANGED <<cfg, seed, maze_id, batch>>

InitDet == Init /\ seed # None

NextDet == Next \/ Rebuild

SpecDet == InitDet /\ [][NextDet]_vars

-----------------------------------------------------------------------------
(* generate_batch *)

\* generate_batch is called with count in 0..MaxCount
MaxCount == 2

\* DIFF_CONFIGS, the preset registry; 0.02 is 2/100 and so on
DIFF_CONFIGS ==
    [easy   |-> [name |-> "easy", nx |-> 12, nz |-> 12,
                 ratioNum |-> 2, ratioDen |-> 100, trapNum |-> 0, trapDen |-> 100],
     medium |-> [name |-> "medium", nx |-> 20, nz |-> 20,
                 ratioNum |-> 5, ratioDen |-> 100, trapNum |-> 3, trapDen |-> 100],
     hard   |-> [name |-> "hard", nx |-> 28, nz |-> 28,
                 ratioNum |-> 10, ratioDen |-> 100, trapNum |-> 6, trapDen |-> 100]]

\* the names generate_batch is called with: the three presets and one that is
\* not in the registry
Difficulties == DOMAIN DIFF_CONFIGS \cup {"extreme"}

\* the decimal digits of i >= 0, most significant first
RECURSIVE Digits(_)
Digits(i) == IF i < 10 THEN <<i>> ELSE Digits(i \div 10) \o <<i % 10>>

\* zeros put in front of ds until it has w digits
RECURSIVE ZeroPad(_, _)
ZeroPad(ds, w) == IF Len(ds) >= w THEN ds ELSE ZeroPad(<<0>> \o ds, w)

\* f"{i:03d}"
Format03d(i) == ZeroPad(Digits(i), 3)

\* maze_id = f"maze_{difficulty}_{i:03d}"
BatchId(difficulty, i) == <<"maze", difficulty, Format03d(i)>>

\* the seed of every build is the base seed
MazeSeedBase(b, i) == b

\* maze_seed = base_seed + i
MazeSeed(b, i) == b + i

\* save_maze_json: path = os.path.join(out_dir, f"{maze_id}.json")
FileName(doc) == <<doc.id, "json">>

\* no build_maze_json call is in progress
NoBuild ==
    /\ cfg = << >>
    /\ seed = None
    /\ maze_id = None
    /\ rng = AnyRng
    /\ walls = << >>
    /\ visited = << >>
    /\ stack = << >>
    /\ pushes = << >>
    /\ attempts = 0
    /\ start = <<0, 0>>
    /\ goal = <<0, 0>>
    /\ q = << >>
    /\ prev = << >>
    /\ seen = {}
    /\ path = << >>
    /\ trap_set = {}
    /\ data = << >>
    /\ pc = "idle"

\* generate_batch(difficulty, count, out_dir, seed) has been called; out_dir
\* does not exist yet
InitBatch ==
    /\ NoBuild
    /\ run = 1
    /\ data1 = << >>
    /\ \E df \in Difficulties, ct \in 0..MaxCount, sd \in Seeds :
          batch = [phase |-> "called", difficulty |-> df, count |-> ct, seed |-> sd,
                   base_seed |-> None, i |-> 0,
                   dir |-> FALSE, files |-> << >>, log |-> << >>]

\* build_maze_json(c, seed=sd, maze_id=id) is entered: its locals are new
EnterBuild(c, sd, id) ==
    /\ cfg' = c
    /\ seed' = sd
    /\ maze_id' = id
    /\ rng' = NewRng(sd)
    /\ walls' = InitWalls(c.nx, c.nz)
    /\ visited' = InitVisited(c.nx, c.nz)
    /\ stack' = << <<0, 0>> >>
    /\ pushes' = InitPushes(c.nx, c.nz)
    /\ attempts' = 0
    /\ start' = <<0, 0>>
    /\ goal' = <<0, 0>>
    /\ q' = << >>
    /\ prev' = << >>
    /\ seen' = {}
    /\ path' = << >>
    /\ trap_set' = {}
    /\ data' = << >>
    /\ pc' = "carve"

\* the unknown name raises only after the base seed was fixed
BatchRaiseAfterSeed ==
    /\ batch.phase = "called"
    /\ batch.difficulty \notin DOMAIN DIFF_CONFIGS
    /\ \E b \in IF batch.seed = None THEN 0..MaxSeed ELSE {batch.seed[1]} :
          batch' = [batch EXCEPT !.phase = "raised", !.base_seed = <<b>>]
    /\ UNCHANGED <<cfg, seed, maze_id, rng, walls, visited, stack, pushes, attempts,
                   start, goal, q, prev, seen, path, trap_set, data, run, data1, pc>>

\* lines 283-284: difficulty is not a key of DIFF_CONFIGS, ValueError is raised
BatchRaise ==
    /\ batch.phase = "called"
    /\ batch.difficulty \notin DOMAIN DIFF_CONFIGS
    /\ batch' = [batch EXCEPT !.phase = "raised"]
    /\ UNCHANGED <<cfg, seed, maze_id, rng, walls, visited, stack, pushes, attempts,
                   start, goal, q, prev, seen, path, trap_set, data, run, data1, pc>>

\* lines 286-289: the preset is looked up and the base seed is the seed
\* argument or, for None, a draw of random.randrange; the seed argument is
\* not read again and is left out of the record from here on
BatchBegin ==
    /\ batch.phase = "called"
    /\ batch.difficulty \in DOMAIN DIFF_CONFIGS
    /\ \E b \in IF batch.seed = None THEN 0..MaxSeed ELSE {batch.seed[1]} :
          batch' = [phase |-> "loop", difficulty |-> batch.difficulty,
                    count |-> batch.count, base_seed |-> <<b>>, i |-> 0,
                    dir |-> batch.dir, files |-> batch.files, log |-> batch.log]
    /\ UNCHANGED <<cfg, seed, maze_id, rng, walls, visited, stack, pushes, attempts,
                   start, goal, q, prev, seen, path, trap_set, data, run, data1, pc>>

\* lines 290-293: the next index of range(count); build_maze_json is called
BatchBuild ==
    /\ batch.phase = "loop"
    /\ batch.i < batch.count
    /\ LET maze_seed == MazeSeed(batch.base_seed[1], batch.i)
           id == BatchId(batch.difficulty, batch.i)
       IN  /\ EnterBuild(DIFF_CONFIGS[batch.difficulty], <<maze_seed>>, id)
           /\ batch' = [batch EXCEPT !.phase = "building",
                                     !.log = Append(@, [op |-> "build", i |-> batch.i,
                                                        seed |-> maze_seed, id |-> id])]
    /\ UNCHANGED <<run, data1>>

\* line 294: the build has returned, save_maze_json makes out_dir if need be
\* and writes the document to its file; the loop goes on to the next index
BatchSave ==
    /\ batch.phase = "building"
    /\ pc = "done"
    /\ batch' = [batch EXCEPT
                   !.phase = "loop",
                   !.i = @ + 1,
                   !.dir = TRUE,
                   !.files = [f \in DOMAIN @ \cup {FileName(data)} |->
                                 IF f = FileName(data) THEN data ELSE @[f]],
                   !.log = Append(@, [op |-> "save", file |-> FileName(data)])]
    /\ UNCHANGED <<cfg, seed, maze_id, rng, walls, visited, stack, pushes, attempts,
                   start, goal, q, prev, seen, path, trap_set, data, run, data1, pc>>

\* range(count) is exhausted: generate_batch returns
BatchReturn ==
    /\ batch.phase = "loop"
    /\ batch.i >= batch.count
    /\ batch' = [batch EXCEPT !.phase = "returned"]
    /\ UNCHANGED <<cfg, seed, maze_id, rng, walls, visited, stack, pushes, attempts,
                   start, goal, q, prev, seen, path, trap_set, data, run, data1, pc>>

\* after the batch, build_maze_json is called on its own with the arguments
\* of one of the batch's calls
StandaloneBuild ==
    /\ batch.phase = "returned"
    /\ \E n \in DOMAIN batch.log :
          /\ batch.log[n].op = "build"
          /\ EnterBuild(DIFF_CONFIGS[batch.difficulty], <<batch.log[n].seed>>, batch.log[n].id)
          /\ batch' = [batch EXCEPT !.phase = "standalone", !.i = batch.log[n].i]
    /\ run' = 2
    /\ UNCHANGED data1

\* the steps of build_maze_json the presets can take (their ratios are > 0)
NextBatch ==
    \/ BatchRaise
    \/ BatchBegin
    \/ BatchBuild
    \/ BatchSave
    \/ BatchReturn
    \/ StandaloneBuild
    \/ CarveBacktrack
    \/ CarveStep
    \/ CarveReturn
    \/ CallAddLoops
    \/ LoopAttempt
    \/ LoopsReturn
    \/ CallShortestPath
    \/ BfsExpand
    \/ BfsExit
    \/ ReturnPath
    \/ CheckPathChooseTraps
    \/ BuildDocument

SpecBatch == InitBatch /\ [][NextBatch]_vars

-----------------------------------------------------------------------------
(* The grid as a graph *)

Dirs == {N, S, E, W}

\* the cell reached from c in direction d
Step(c, d) == <<c[1] + DIRS(d)[1], c[2] + DIRS(d)[2]>>

\* the wall between c and its in-bounds neighbour in direction d is clear
\* (on both of its sides)
Passage(w, c, d, nx, nz) ==
    /\ Step(c, d) \in Cells(nx, nz)
    /\ ~HasWall(w[c[2]][c[1]], d)
    /\ ~HasWall(w[Step(c, d)[2]][Step(c, d)[1]], OPPOSITE(d))

\* the cells reachable through open passages from the cells of `found`, of
\* which those of `frontier` are still to be expanded
RECURSIVE ReachFrom(_, _, _, _, _)
ReachFrom(w, nx, nz, found, frontier) ==
    LET new == { n \in { Step(c, d) : c \in frontier, d \in Dirs } :
                   /\ n \in Cells(nx, nz)
                   /\ n \notin found
                   /\ \E d \in Dirs : Passage(w, n, d, nx, nz) /\ Step(n, d) \in frontier }
    IN  IF new = {} THEN found ELSE ReachFrom(w, nx, nz, found \cup new, new)

\* one connected component holds every cell
Connected(w, nx, nz) ==
    ReachFrom(w, nx, nz, { <<0, 0>> }, { <<0, 0>> }) = Cells(nx, nz)

\* the open passages, each counted once per adjacent pair of cells
OpenPassages(w, nx, nz) ==
    { e \in LatticeEdges(nx, nz) : Passage(w, <<e[1], e[2]>>, e[3], nx, nz) }

\* the number of passages of cell c that lead into the set `in`
DegreeIn(w, nx, nz, c, in) ==
    Cardinality({ d \in Dirs : Passage(w, c, d, nx, nz) /\ Step(c, d) \in in })

\* what is left of `in` after cells with at most one passage into it are removed
\* again and again: empty exactly when the passages among `in` form no cycle
RECURSIVE Core(_, _, _, _)
Core(w, nx, nz, in) ==
    LET keep == { c \in in : DegreeIn(w, nx, nz, c, in) >= 2 }
    IN  IF keep = in THEN in ELSE Core(w, nx, nz, keep)

Acyclic(w, nx, nz) == Core(w, nx, nz, Cells(nx, nz)) = {}

\* control is past the carving loop of a build
Carved == run > 0 /\ pc # "carve"

\* add_loops has run to its end in this build
LoopsRan == run > 0 /\ cfg.ratioNum > 0 /\ pc \notin {"carve", "carved", "loops"}

-----------------------------------------------------------------------------
(* C1: the grid generate_perfect_maze returns, and the grid at every moment of
   and after add_loops, is one connected component that holds all nx*nz cells. *)
C1_Connectivity == Carved => Connected(walls, cfg.nx, cfg.nz)

\* add_loops has run on a 3x3 grid and has opened passages beyond the tree's
C1_Witness ==
    /\ LoopsRan
    /\ cfg.nx = 3 /\ cfg.nz = 3
    /\ Cardinality(OpenPassages(walls, 3, 3)) > 8
    /\ Connected(walls, 3, 3)

(* C2: in every state of a build (the all-walls grid, after each carving step,
   after each loop-injection attempt) and for every cell A and direction D with
   an in-bounds neighbour B, bit D is clear at A iff bit OPPOSITE[D] is clear
   at B. *)
C2_WallSymmetry ==
    run > 0 =>
      \A c \in Cells(cfg.nx, cfg.nz), d \in Dirs :
        Step(c, d) \in Cells(cfg.nx, cfg.nz) =>
          (~HasWall(walls[c[2]][c[1]], d)
             <=> ~HasWall(walls[Step(c, d)[2]][Step(c, d)[1]], OPPOSITE(d)))

\* a loop-injection attempt has opened a wall of a grid with an inner cell
C2_Witness ==
    /\ run > 0 /\ pc = "loops" /\ attempts < NumExtra(cfg)
    /\ cfg.nx = 3 /\ cfg.nz = 3
    /\ Cardinality(OpenPassages(walls, 3, 3)) > 8

(* C3: the grid generate_perfect_maze returns has exactly nx*nz - 1 open
   passages and no cycle: it is a spanning tree of the lattice. *)
C3_SpanningTree ==
    (run > 0 /\ pc = "carved") =>
      /\ Cardinality(OpenPassages(walls, cfg.nx, cfg.nz)) = cfg.nx * cfg.nz - 1
      /\ Acyclic(walls, cfg.nx, cfg.nz)

\* carving has returned a 3x3 grid
C3_Witness ==
    /\ run > 0 /\ pc = "carved"
    /\ cfg.nx = 3 /\ cfg.nz = 3
    /\ Cardinality(OpenPassages(walls, 3, 3)) = 8

(* C4: a non-empty path returned by shortest_path starts at start, ends at
   goal, joins consecutive cells by an open passage between lattice neighbours,
   and holds no cell twice; on the builds' grids and on every symmetric grid
   with every start and goal. *)
C4_PathValid ==
    path # << >> =>
      /\ path[1] = start
      /\ path[Len(path)] = goal
      /\ \A i \in 1..(Len(path) - 1) :
            \E d \in Dirs : /\ Step(path[i], d) = path[i + 1]
                             /\ Passage(walls, path[i], d, cfg.nx, cfg.nz)
      /\ \A i, j \in 1..Len(path) : path[i] = path[j] => i = j

\* shortest_path on its own has returned a path of four cells or more that
\* does not start in the corner
C4_Witness ==
    /\ run = 0 /\ pc = "sp_ret"
    /\ Len(path) >= 4
    /\ start # <<0, 0>>

\* the number of passages on a shortest route from the cells of `frontier`,
\* which are k passages from the start, to the cell `to`; -1 if there is none
RECURSIVE Distance(_, _, _, _, _, _, _)
Distance(w, nx, nz, found, frontier, to, k) ==
    IF to \in frontier THEN k
    ELSE LET new == { n \in { Step(c, d) : c \in frontier, d \in Dirs } :
                        /\ n \in Cells(nx, nz)
                        /\ n \notin found
                        /\ \E d \in Dirs :
                              Passage(w, n, d, nx, nz) /\ Step(n, d) \in frontier }
         IN  IF new = {} THEN -1
             ELSE Distance(w, nx, nz, found \cup new, new, to, k + 1)

(* C5: the number of passages of a non-empty path returned by shortest_path is
   the graph distance from start to goal: no route through open passages is
   shorter. *)
C5_PathShortest ==
    path # << >> =>
      Len(path) - 1 = Distance(walls, cfg.nx, cfg.nz, {start}, {start}, goal, 0)

\* shortest_path on its own has returned a path of four cells or more on a grid
\* with a cycle, and has stopped before it saw every cell it could reach
C5_Witness ==
    /\ run = 0 /\ pc = "sp_ret"
    /\ Len(path) >= 4
    /\ ~Acyclic(walls, cfg.nx, cfg.nz)
    /\ seen # ReachFrom(walls, cfg.nx, cfg.nz, {start}, {start})

(* C6: a build never reaches the 'No path found' RuntimeError: shortest_path
   from (0,0) to (nx-1,nz-1) returns a non-empty path, and every returned
   document has a non-empty shortestPath. *)
C6_NoPathError ==
    run > 0 =>
      /\ pc # "error"
      /\ pc = "sp_ret" => path # << >>
      /\ pc = "done" => data.shortestPath # << >>

\* a document of a 3x3 grid has been returned, with a path of five cells or more
C6_Witness ==
    /\ run > 0 /\ pc = "done"
    /\ cfg.nx = 3 /\ cfg.nz = 3
    /\ Len(data.shortestPath) >= 5

\* the cells of the document whose trap flag is set, as <<i, k>>
DocTraps(doc) ==
    { c \in Cells(doc.size.nx, doc.size.nz) : doc.cells[c[2]][c[1]].trap }

\* the cells of the document's shortestPath, as <<i, k>>
DocPathCells(doc) ==
    { <<doc.shortestPath[n].i, doc.shortestPath[n].k>> : n \in 1..Len(doc.shortestPath) }

(* C7: in every returned document no cell with trap = true is the start cell
   (0,0) or a cell of shortestPath (so neither is the goal cell). *)
C7_TrapsOffPath ==
    (run > 0 /\ pc = "done") =>
      \A c \in DocTraps(data) :
        /\ c # <<data.start.i, data.start.k>>
        /\ c # <<data.goal.i, data.goal.k>>
        /\ c \notin DocPathCells(data)

\* a returned document has a trap
C7_Witness ==
    /\ run > 0 /\ pc = "done"
    /\ DocTraps(data) # {}

\* all cells minus the path cells and the start cell
Eligible(nx, nz, p) == Cells(nx, nz) \ (PathSet(p) \cup { <<0, 0>> })

\* min(n, max(0, floor(n * trap_density))), the density being trapNum / trapDen
ExpectedTraps(n, trapNum, trapDen) ==
    LET fl == (n * trapNum) \div trapDen
        lo == IF fl > 0 THEN fl ELSE 0
    IN  IF lo < n THEN lo ELSE n

(* C8: choose_traps returns exactly min(|eligible|, max(0, floor(|eligible| *
   trap_density))) distinct cells, all eligible; none when trap_density <= 0 or
   nothing is eligible, and never more than the eligible cells. *)
C8_TrapCount ==
    (run > 0 /\ pc = "trapped") =>
      LET eligible == Eligible(cfg.nx, cfg.nz, path)
      IN  /\ Cardinality(trap_set) = ExpectedTraps(Cardinality(eligible), cfg.trapNum,
                                                      cfg.trapDen)
          /\ trap_set \subseteq eligible
          /\ (cfg.trapNum <= 0 \/ eligible = {}) => trap_set = {}
          /\ Cardinality(trap_set) <= Cardinality(eligible)

\* choose_traps has returned two or more traps, fewer than the eligible cells
C8_Witness ==
    /\ run > 0 /\ pc = "trapped"
    /\ Cardinality(trap_set) >= 2
    /\ Cardinality(trap_set) < Cardinality(Eligible(cfg.nx, cfg.nz, path))

(* C9: a second build with the same configuration, seed and maze_id returns
   the same document as the first: same walls, path, trap flags and id. *)
C9_Deterministic ==
    (run = 2 /\ pc = "done") => data = data1

\* the second build of a 3x3 grid with loop injection, traps and a default id
\* has returned
C9_Witness ==
    /\ run = 2 /\ pc = "done"
    /\ cfg.nx = 3 /\ cfg.nz = 3
    /\ cfg.ratioNum > 0
    /\ maze_id = None
    /\ DocTraps(data) # {}

(* C10: the carving loop terminates, and when it has the stack is empty, every
   cell is marked visited and every cell has been pushed exactly once. *)
C10_CarveTerminates ==
    /\ <>(pc # "carve")
    /\ [](pc = "carved" =>
            /\ stack = << >>
            /\ \A c \in Cells(cfg.nx, cfg.nz) :
                  visited[c[2]][c[1]] /\ pushes[c[2]][c[1]] = 1)

\* the carving loop of a 3x3 grid has ended
C10_Witness ==
    /\ run > 0 /\ pc = "carved"
    /\ cfg.nx = 3 /\ cfg.nz = 3
    /\ stack = << >>

\* trap_density = 1.0 and choose_traps has returned in a build
FullDensity == run > 0 /\ pc \in {"trapped", "done"} /\ cfg.trapNum = cfg.trapDen

(* C11 as stated: with trap_density = 1.0 the hazard set is the whole eligible
   complement and has n - k - 1 cells, n the number of cells and k the number
   of path cells. *)
C11_Original ==
    FullDensity =>
      /\ trap_set = Eligible(cfg.nx, cfg.nz, path)
      /\ Cardinality(trap_set) = cfg.nx * cfg.nz - Cardinality(PathSet(path)) - 1

(* C11 as amended: with trap_density = 1.0 the hazard set is the whole eligible
   complement and has n - k cells, the start cell being one of the k path
   cells; the document flags exactly these cells. *)
C11_FullDensity ==
    FullDensity =>
      /\ trap_set = Eligible(cfg.nx, cfg.nz, path)
      /\ Cardinality(trap_set) = cfg.nx * cfg.nz - Cardinality(PathSet(path))
      /\ pc = "done" => DocTraps(data) = Eligible(cfg.nx, cfg.nz, path)

\* a document of a 3x3 grid built with trap_density = 1.0 has traps
C11_Witness ==
    /\ FullDensity /\ pc = "done"
    /\ cfg.nx = 3 /\ cfg.nz = 3
    /\ Cardinality(DocTraps(data)) >= 2

\* a build of the 3x3 grid with extra_open_ratio = 0
Scenario3x3 == run > 0 /\ cfg.nx = 3 /\ cfg.nz = 3 /\ cfg.ratioNum = 0

\* the number of hops of the path
Hops(p) == Len(p) - 1

(* C12 as stated: on the 3x3 grid with extra_open_ratio = 0 carving yields
   exactly 8 open passages and one connected component, and shortest_path from
   (0,0) to (2,2) returns a non-empty path of at most 4 hops. *)
C12_Original ==
    Scenario3x3 =>
      /\ pc = "carved" => /\ Cardinality(OpenPassages(walls, 3, 3)) = 8
                          /\ Connected(walls, 3, 3)
      /\ pc = "sp_ret" => /\ path # << >>
                          /\ Hops(path) <= 4

(* C12 as amended: on the 3x3 grid with extra_open_ratio = 0 carving yields
   exactly 8 open passages and one connected component, and shortest_path from
   (0,0) to (2,2) returns a non-empty path of at least 4 hops (4, 6 or 8). *)
C12_Scenario3x3 ==
    Scenario3x3 =>
      /\ pc = "carved" => /\ Cardinality(OpenPassages(walls, 3, 3)) = 8
                          /\ Connected(walls, 3, 3)
      /\ pc = "sp_ret" => /\ path # << >>
                          /\ path[1] = <<0, 0>> /\ path[Len(path)] = <<2, 2>>
                          /\ Hops(path) \in {4, 6, 8}

\* the scenario's path search has returned a path of more than 4 hops
C12_Witness ==
    /\ Scenario3x3 /\ pc = "sp_ret"
    /\ Hops(path) = 8
    /\ Cardinality(OpenPassages(walls, 3, 3)) = 8

-----------------------------------------------------------------------------
(* C13: scenario nx = 5, nz = 5, extra_open_ratio = 0.5, over every run of the
   carver's and the injector's choices: after add_loops the grid has strictly
   more open passages than the perfect maze's 24 and is one connected component.
   The scenario is stated here for every grid of the model that has an inner
   wall to open (both sides at least 2) at the same ratio 1/2: the perfect-maze
   count is nx*nz - 1. *)
HalfRatio ==
    /\ LoopsRan
    /\ cfg.nx >= 2 /\ cfg.nz >= 2
    /\ 2 * cfg.ratioNum = cfg.ratioDen

-----------------------------------------------------------------------------
(* C14: generate_batch called with a difficulty name that is not a key of the
   preset registry fails with a configuration error before any generation work
   begins: no base seed is drawn, build_maze_json is never called, no file or
   directory is written, and the call is not retried. *)

UnknownDifficulty ==
    batch.phase # "none" /\ batch.difficulty \notin {"easy", "medium", "hard"}

\* nothing has been done on behalf of a call with an unknown name
C14_NoWork ==
    UnknownDifficulty =>
        /\ batch.phase \in {"called", "raised"}
        /\ batch.base_seed = None
        /\ batch.log = << >>
        /\ batch.files = << >>
        /\ ~batch.dir
        /\ NoBuild

\* the only step of such a call is the raise; nothing follows the raise and
\* no step enters generate_batch again
C14_OnlyRaise ==
    /\ (UnknownDifficulty /\ batch.phase = "called") => batch'.phase = "raised"
    /\ batch.phase = "raised" => batch' = batch
    /\ batch'.phase = "called" => batch.phase = "called"

C14_UnknownDifficulty == [][C14_OnlyRaise]_vars /\ []C14_NoWork

\* the call with the unknown name, a count of 2 and no seed has raised
C14_Witness ==
    /\ batch.phase = "raised"
    /\ batch.difficulty = "extreme"
    /\ batch.count = 2
    /\ batch.seed = None

-----------------------------------------------------------------------------
(* C15: loop injection makes exactly floor(nx*nz*extra_open_ratio) attempts and
   none when the ratio is <= 0; each attempt opens at most one passage and
   never puts a wall back, so the final grid has between nx*nz - 1 and
   nx*nz - 1 + floor(nx*nz*ratio) open passages, and exactly nx*nz - 1 when the
   ratio is <= 0 or the floor is 0. *)

\* floor(a / b) for a >= 0, b > 0, by its defining inequalities
FloorOf(a, b) == CHOOSE k \in 0..a : k * b <= a /\ a < (k + 1) * b

\* the attempts the claim calls for: none for a ratio <= 0, else the floor
FloorAttempts ==
    IF cfg.ratioNum <= 0 THEN 0
    ELSE FloorOf(cfg.nx * cfg.nz * cfg.ratioNum, cfg.ratioDen)

PassageCount(w) == Cardinality(OpenPassages(w, cfg.nx, cfg.nz))

\* grid v is grid w, or grid w with one wall between two adjacent cells removed
\* on both of its sides and nothing else changed
AtMostOneWallRemoved(w, v) ==
    LET changed == { c \in Cells(cfg.nx, cfg.nz) : v[c[2]][c[1]] # w[c[2]][c[1]] }
    IN  \/ changed = {}
        \/ \E c \in changed : \E d \in Dirs :
              /\ changed = {c, Step(c, d)}
              /\ HasWall(w[c[2]][c[1]], d)
              /\ v[c[2]][c[1]] = w[c[2]][c[1]] - d
              /\ HasWall(w[Step(c, d)[2]][Step(c, d)[1]], OPPOSITE(d))
              /\ v[Step(c, d)[2]][Step(c, d)[1]] = w[Step(c, d)[2]][Step(c, d)[1]] - OPPOSITE(d)

\* what each step around and inside add_loops does to the attempt counter and
\* to the grid
C15_Steps ==
    /\ (pc = "carved" /\ pc' = "loops") => cfg.ratioNum > 0 /\ attempts' = FloorAttempts
    /\ (pc = "carved" /\ pc' = "looped") => cfg.ratioNum <= 0 /\ walls' = walls
    /\ (pc = "loops" /\ pc' = "loops") =>
          /\ attempts > 0
          /\ attempts' = attempts - 1
          /\ AtMostOneWallRemoved(walls, walls')
    /\ (pc = "loops" /\ pc' = "looped") => attempts = 0 /\ walls' = walls

\* the passage count during and after add_loops
C15_Counts ==
    /\ (run > 0 /\ pc = "loops") =>
          /\ attempts \in 0..FloorAttempts
          /\ PassageCount(walls) >= cfg.nx * cfg.nz - 1
          /\ PassageCount(walls) <= cfg.nx * cfg.nz - 1 + (FloorAttempts - attempts)
    /\ (run > 0 /\ pc \notin {"carve", "carved", "loops"}) =>
          /\ PassageCount(walls) >= cfg.nx * cfg.nz - 1
          /\ PassageCount(walls) <= cfg.nx * cfg.nz - 1 + FloorAttempts
          /\ FloorAttempts = 0 =>
                PassageCount(walls) = cfg.nx * cfg.nz - 1

C15_LoopAttempts == [][C15_Steps]_vars /\ []C15_Counts

\* add_loops has returned after several attempts of which some opened a wall
\* and some were wasted
C15_Witness ==
    /\ run > 0 /\ pc = "looped"
    /\ FloorAttempts = 4
    /\ attempts = 0
    /\ PassageCount(walls) = cfg.nx * cfg.nz - 1 + 2

-----------------------------------------------------------------------------
(* C16: an attempt of add_loops opens the first direction of its shuffled order
   that still has a wall, skipping directions that point out of the grid; it
   leaves the grid unchanged only if all four directions of the chosen cell are
   already open. *)

\* direction d at cell <<x, z>> points into the grid and has its wall bit set
Walled(w, x, z, d) ==
    /\ 0 <= x + DIRS(d)[1] /\ x + DIRS(d)[1] < cfg.nx
    /\ 0 <= z + DIRS(d)[2] /\ z + DIRS(d)[2] < cfg.nz
    /\ HasWall(w[z][x], d)

\* the position in dirs of the first in-bounds direction of cell <<x, z>> whose
\* wall bit is set, 0 when there is none
FirstWalled(w, x, z, dirs) ==
    IF Walled(w, x, z, dirs[1]) THEN 1
    ELSE IF Walled(w, x, z, dirs[2]) THEN 2
    ELSE IF Walled(w, x, z, dirs[3]) THEN 3
    ELSE IF Walled(w, x, z, dirs[4]) THEN 4
    ELSE 0

\* the grid the claim describes after an attempt at cell <<x, z>> with order dirs
AttemptResult(w, x, z, dirs) ==
    LET i == FirstWalled(w, x, z, dirs)
        c2 == Step(<<x, z>>, dirs[i])
    IN  IF i = 0 THEN w
        ELSE [w EXCEPT ![z][x] = w[z][x] - dirs[i],
                       ![c2[2]][c2[1]] = ClearWall(w[c2[2]][c2[1]], OPPOSITE(dirs[i]))]

AllFourOpen(w, x, z) == \A d \in Dirs : ~HasWall(w[z][x], d)

InBoundsOpen(w, x, z) ==
    \A d \in Dirs : Step(<<x, z>>, d) \in Cells(cfg.nx, cfg.nz) => ~HasWall(w[z][x], d)

AttemptPending == run > 0 /\ pc = "loops" /\ attempts > 0

\* the orders rng.shuffle can leave the four directions in
ShuffledOrders ==
    { Shuffle(DirOrder, j3, j2, j1) : j3 \in 0..3, j2 \in 0..2, j1 \in 0..1 }

\* C16 as the claim states it: wasted only if all four directions are open
C16_Original ==
    AttemptPending =>
        \A c \in Cells(cfg.nx, cfg.nz) : \A dirs \in ShuffledOrders :
            LET after == LoopBody(walls, c[1], c[2], dirs, cfg.nx, cfg.nz)
            IN  /\ after = AttemptResult(walls, c[1], c[2], dirs)
                /\ after = walls => AllFourOpen(walls, c[1], c[2])

\* C16 as the code has it, for every cell and every order an attempt can draw:
\* the attempt opens the first in-bounds direction of the order that has a
\* wall, and leaves the grid unchanged exactly when every in-bounds direction
\* of the chosen cell is already open
C16_FirstWalledDirection ==
    AttemptPending =>
        \A c \in Cells(cfg.nx, cfg.nz) :
            LET wasted == InBoundsOpen(walls, c[1], c[2])
            IN  \A dirs \in ShuffledOrders :
                    LET after == LoopBody(walls, c[1], c[2], dirs, cfg.nx, cfg.nz)
                    IN  /\ after = AttemptResult(walls, c[1], c[2], dirs)
                        /\ after = walls <=> wasted

\* in a 3x3 build an attempt was made and wasted, and another is pending on a grid
\* in which the corner (2,0) has both in-bounds walls open and its two
\* boundary walls standing
C16_Witness ==
    /\ AttemptPending
    /\ cfg.nx = 3 /\ cfg.nz = 3
    /\ attempts < NumExtra(cfg)
    /\ PassageCount(walls) = cfg.nx * cfg.nz - 1
    /\ InBoundsOpen(walls, 2, 0)
    /\ ~AllFourOpen(walls, 2, 0)

-----------------------------------------------------------------------------
(* C17: shortest_path returns the empty list if and only if goal cannot be
   reached from start through open walls; for start = goal it returns the
   one-cell path <<start>>, so a 1x1 configuration builds a document and does
   not raise. Checked on the builds' grids and on every symmetric grid with
   every start and goal. *)
C17_EmptyIffUnreachable ==
    /\ pc = "sp_ret" =>
          /\ path = << >> <=> goal \notin ReachFrom(walls, cfg.nx, cfg.nz, {start}, {start})
          /\ start = goal => path = <<start>>
    /\ (run > 0 /\ cfg.nx = 1 /\ cfg.nz = 1) =>
          /\ pc # "error"
          /\ pc = "sp_ret" => path = << <<0, 0>> >>
          /\ pc = "done" => data.shortestPath = << [i |-> 0, k |-> 0] >>

\* shortest_path on its own has returned the empty list for a goal that is
\* another cell than start, walled off from it
C17_Witness ==
    /\ run = 0 /\ pc = "sp_ret"
    /\ path = << >>
    /\ goal # start
    /\ Cardinality(ReachFrom(walls, cfg.nx, cfg.nz, {start}, {start})) >= 2

-----------------------------------------------------------------------------
(* C18: generate_batch with a known difficulty, a count c >= 0 and a base seed
   b calls build_maze_json exactly c times, in increasing index order
   i = 0..c-1, the i-th call with seed b + i and the id maze_<difficulty>_<i
   zero-padded to 3 digits>, and saves each document before the next build
   starts; the ids are pairwise distinct, and the i-th document equals the
   document of a build_maze_json call made on its own with that configuration,
   seed and id. *)

BatchRunning == batch.phase \in {"loop", "building", "returned", "standalone"}

\* the id of index i < 1000, digit by digit
PaddedId(difficulty, i) == <<"maze", difficulty, <<i \div 100, (i \div 10) % 10, i % 10>> >>

\* the n-th event of a batch with base seed b: builds and saves take turns,
\* the builds in index order
ExpectedEvent(n, b, difficulty) ==
    IF n % 2 = 1
    THEN [op |-> "build", i |-> (n - 1) \div 2, seed |-> b + (n - 1) \div 2,
          id |-> PaddedId(difficulty, (n - 1) \div 2)]
    ELSE [op |-> "save", file |-> <<PaddedId(difficulty, (n - 2) \div 2), "json">>]

C18_BatchOrder ==
    BatchRunning =>
        /\ \A n \in 1..Len(batch.log) :
              batch.log[n] = ExpectedEvent(n, batch.base_seed[1], batch.difficulty)
        /\ Len(batch.log) = CASE batch.phase = "loop" -> 2 * batch.i
                              [] batch.phase = "building" -> 2 * batch.i + 1
                              [] OTHER -> 2 * batch.count
        /\ batch.phase \in {"loop", "building"} => batch.i <= batch.count
        /\ batch.phase = "building" =>
              /\ batch.i < batch.count
              /\ cfg = DIFF_CONFIGS[batch.difficulty]
              /\ seed = <<batch.base_seed[1] + batch.i>>
              /\ maze_id = PaddedId(batch.difficulty, batch.i)
        /\ \A m, n \in 1..Len(batch.log) :
              (batch.log[m].op = "build" /\ batch.log[n].op = "build"
                 /\ batch.log[m].id = batch.log[n].id) => m = n
        /\ DOMAIN batch.files =
              { batch.log[n].file : n \in { k \in 1..Len(batch.log) : batch.log[k].op = "save" } }
        /\ Cardinality(DOMAIN batch.files) = Len(batch.log) \div 2
        /\ \A f \in DOMAIN batch.files : <<batch.files[f].id, "json">> = f
        /\ (batch.phase = "standalone" /\ pc = "done") =>
              data = batch.files[<<PaddedId(batch.difficulty, batch.i), "json">>]

\* a batch of two easy mazes has returned and the build of index 1, called
\* again on its own, has returned the document the batch saved
C18_Witness ==
    /\ batch.phase = "standalone" /\ pc = "done"
    /\ batch.difficulty = "easy"
    /\ batch.count = 2
    /\ batch.i = 1
    /\ batch.base_seed = <<1>>
    /\ data.id = <<"maze", "easy", <<0, 0, 1>> >>
    /\ data = batch.files[<<data.id, "json">>]
    /\ Cardinality(DOMAIN batch.files) = 2

-----------------------------------------------------------------------------
(* C19: the outer boundary of the maze is never opened: in every state of
   carving and loop injection and after, and in every returned document, each
   cell keeps its wall in every direction that points out of the grid (N for
   k = 0, S for k = nz - 1, W for i = 0, E for i = nx - 1). *)

\* the directions that point out of the grid at cell c
OutwardDirs(c, nx, nz) ==
    (IF c[2] = 0 THEN {"N"} ELSE {}) \cup (IF c[2] = nz - 1 THEN {"S"} ELSE {})
        \cup (IF c[1] = 0 THEN {"W"} ELSE {}) \cup (IF c[1] = nx - 1 THEN {"E"} ELSE {})

BitOf(name) == CASE name = "N" -> N [] name = "S" -> S [] name = "E" -> E [] name = "W" -> W

C19_BoundaryClosed ==
    run > 0 =>
        /\ \A c \in Cells(cfg.nx, cfg.nz) : \A o \in OutwardDirs(c, cfg.nx, cfg.nz) :
              HasWall(walls[c[2]][c[1]], BitOf(o))
        /\ pc = "done" =>
              \A c \in Cells(cfg.nx, cfg.nz) : \A o \in OutwardDirs(c, cfg.nx, cfg.nz) :
                  data.cells[c[2]][c[1]].walls[o]

\* a 3x3 document whose loop injection opened walls until the corner (0,0)
\* and the border cell (1,0) have every in-bounds wall open
C19_Witness ==
    /\ run > 0 /\ pc = "done"
    /\ cfg.nx = 3 /\ cfg.nz = 3
    /\ PassageCount(walls) > cfg.nx * cfg.nz - 1
    /\ InBoundsOpen(walls, 0, 0)
    /\ InBoundsOpen(walls, 1, 0)
    /\ data.cells[0][1].walls["N"]

-----------------------------------------------------------------------------
(* C20: once loop injection has finished, path-finding, hazard selection and
   document construction leave the wall grid unchanged; the walls written to
   the document are the walls the shortest path was computed on (walls.D is
   true exactly when bit D is set in the final grid), and the document's
   shortestPath is a valid open-wall path through the document's own cells. *)

DirNames == {"N", "S", "E", "W"}

NameOfOpposite(name) ==
    CASE name = "N" -> "S" [] name = "S" -> "N" [] name = "E" -> "W" [] name = "W" -> "E"

\* the document's cell at <<i, k>> of its shortestPath entry e
DocCell(doc, e) == doc.cells[e.k][e.i]

\* entries e and f of the document's shortestPath are lattice neighbours
\* with no wall between them in either cell's record
DocStep(doc, e, f) ==
    \E o \in DirNames :
        /\ <<f.i, f.k>> = Step(<<e.i, e.k>>, BitOf(o))
        /\ ~DocCell(doc, e).walls[o]
        /\ ~DocCell(doc, f).walls[NameOfOpposite(o)]

\* the grid is left alone by every step after add_loops
C20_Frame ==
    (run > 0 /\ pc \notin {"carve", "carved", "loops"}) => walls' = walls

\* the document's walls are the final grid's bits and its path runs through them
C20_Document ==
    (run > 0 /\ pc = "done") =>
        /\ \A c \in Cells(cfg.nx, cfg.nz) :
              /\ data.cells[c[2]][c[1]].i = c[1]
              /\ data.cells[c[2]][c[1]].k = c[2]
              /\ \A o \in DirNames :
                    data.cells[c[2]][c[1]].walls[o] <=> HasWall(walls[c[2]][c[1]], BitOf(o))
        /\ Len(data.shortestPath) >= 1
        /\ data.shortestPath[1] = [i |-> data.start.i, k |-> data.start.k]
        /\ data.shortestPath[Len(data.shortestPath)] = [i |-> data.goal.i, k |-> data.goal.k]
        /\ \A n \in 1..(Len(data.shortestPath) - 1) :
              DocStep(data, data.shortestPath[n], data.shortestPath[n + 1])

C20_WallsFrame == [][C20_Frame]_vars /\ []C20_Document

\* a 3x3 document built after loop injection opened walls, with a path of
\* five cells and a trap
C20_Witness ==
    /\ run > 0 /\ pc = "done"
    /\ cfg.nx = 3 /\ cfg.nz = 3
    /\ PassageCount(walls) > cfg.nx * cfg.nz - 1
    /\ Len(data.shortestPath) = 5
    /\ DocTraps(data) # {}

====
